---- MODULE Spec2Model ----
(***************************************************************************)
(* Model of linetrack (src/lib.rs): the pre-computed LineCache and the     *)
(* forward-only position tracker PosTrackerExtern.                         *)
(*                                                                         *)
(* Byte offsets are zero-based as in the source; a buffer is a TLA+        *)
(* sequence, so the byte at offset o is dat[o + 1] and the Rust slice      *)
(* dat[a..b] is SubSeq(dat, a + 1, b).                                     *)
(***************************************************************************)
EXTENDS Integers, Sequences, FiniteSets

\* b'\n' and b'\r'
NL == 10
CR == 13

\* The bytes buffers are drawn from: the two bytes the code tests for and
\* one ordinary byte (b'a').
Bytes == {NL, CR, 97}

\* Longest buffer explored.
MaxLen == 4

\* How far past the end of the buffer a requested offset may lie.
MaxPast == 1

RECURSIVE SeqsUpTo(_)
SeqsUpTo(n) ==
    IF n = 0 THEN {<<>>}
    ELSE LET shorter == SeqsUpTo(n - 1)
         IN  shorter \cup {Append(s, b) : s \in {t \in shorter : Len(t) = n - 1}, b \in Bytes}

Buffers == SeqsUpTo(MaxLen)

VARIABLES
    dat,     \* the buffer every call is made on
    lc,      \* LineCache built from dat: sequence of <<lnr, bkpt>>
    trk,     \* the PosTrackerExtern: [offset, line, column]
    twin,    \* a second PosTrackerExtern, advanced over CrLf(dat)
    req,     \* new_offset of the most recent update call
    ret,     \* what the most recent update call returned
    query,   \* the most recent LineCache::run call and its result
    dref,    \* a PosTrackerDatRef on dat: [dat, inner]
    dret,    \* what the most recent PosTrackerDatRef::update call returned
    snaps,   \* PosTrackerExtern values obtained from dref.inner()
    scanned, \* the slices returned by the update calls so far, concatenated
    ldsum    \* the line deltas returned by the update calls so far, summed

vars == <<dat, lc, trk, twin, req, ret, query, dref, dret, snaps, scanned, ldsum>>

----------------------------------------------------------------------------
(* LineCache *)

\* s.bytes().enumerate().filter(|&(_, i)| i == b'\n'): the zero-based
\* offsets of the newline bytes, in increasing order.
RECURSIVE NewlineOffsets(_, _)
NewlineOffsets(s, from) ==
    IF from >= Len(s) THEN <<>>
    ELSE IF s[from + 1] = NL
         THEN <<from>> \o NewlineOffsets(s, from + 1)
         ELSE NewlineOffsets(s, from + 1)

\* LineCache::new with the entries numbered from 0.
LineCache_new_from0(s) ==
    LET offs == NewlineOffsets(s, 0)
    IN  [k \in 1..Len(offs) |-> <<k - 1, offs[k]>>]

\* .enumerate().map(|(lnr, (bkpt, _))| (lnr + 1, bkpt)).collect()
LineCache_new(s) ==
    LET offs == NewlineOffsets(s, 0)
    IN  [k \in 1..Len(offs) |-> <<k, offs[k]>>]

\* run with the comparison bkpt < pos in place of bkpt <= pos.
RECURSIVE take_while_last_strict(_, _, _)
take_while_last_strict(entries, pos, last) ==
    IF entries = <<>> THEN last
    ELSE IF Head(entries)[2] < pos
         THEN take_while_last_strict(Tail(entries), pos, Head(entries))
         ELSE last

\* run without the take_while: the last entry of all.
take_while_last_all(entries, pos, last) ==
    IF entries = <<>> THEN last ELSE entries[Len(entries)]

\* .take_while(|&(_, bkpt)| bkpt <= pos).last().unwrap_or((0, 0)),
\* seen as a left-to-right pass that remembers the last entry taken.
RECURSIVE take_while_last(_, _, _)
take_while_last(entries, pos, last) ==
    IF entries = <<>> THEN last
    ELSE IF Head(entries)[2] <= pos
         THEN take_while_last(Tail(entries), pos, Head(entries))
         ELSE last

run(cache, pos) ==
    LET e == take_while_last(cache, pos, <<0, 0>>)
    IN  <<e[1], pos - e[2]>>

----------------------------------------------------------------------------
(* PosTrackerExtern *)

\* The model of LineCache as it is after run(pos): run takes &self and
\* iterates over copies of the entries, so the entries stay as they are.
\* (The variant below has the iterator consume the entries it passes.)
RECURSIVE LineCache_drained(_, _)
LineCache_drained(cache, pos) ==
    IF cache = <<>> THEN cache
    ELSE IF Head(cache)[2] <= pos THEN LineCache_drained(Tail(cache), pos)
    ELSE cache

LineCache_after_run(cache, pos) == cache

\* #[derive(Default)]
Default == [offset |-> 0, line |-> 0, column |-> 0]

NoneRet == [kind |-> "None", slc |-> <<>>, ldif |-> 0, cdif |-> 0]
PanicRet == [kind |-> "panic", slc |-> <<>>, ldif |-> 0, cdif |-> 0]
NoCall == [kind |-> "nocall", slc |-> <<>>, ldif |-> 0, cdif |-> 0]

\* The loop body without the reset of cdif at a newline.
ScanByte_noreset(acc, i) ==
    IF i = NL THEN [acc EXCEPT !.ldif = @ + 1]
    ELSE IF i # CR THEN [acc EXCEPT !.cdif = @ + 1]
    ELSE acc

\* The loop body with '\r' taken as a line break of its own.
ScanByte_crbreak(acc, i) ==
    IF i = NL \/ i = CR THEN [ldif |-> acc.ldif + 1, cdif |-> 0]
    ELSE [acc EXCEPT !.cdif = @ + 1]

\* One iteration of the for loop over slc.
ScanByte(acc, i) ==
    IF i = NL THEN [ldif |-> acc.ldif + 1, cdif |-> 0]
    ELSE IF i # CR THEN [acc EXCEPT !.cdif = @ + 1]
    ELSE acc

RECURSIVE Scan(_, _)
Scan(slc, acc) ==
    IF slc = <<>> THEN acc
    ELSE Scan(Tail(slc), ScanByte(acc, Head(slc)))

\* The assignments after the loop without the reset of column.
Commit_keepcol(self, new_offset, acc) ==
    [offset |-> new_offset,
     line   |-> self.line + acc.ldif,
     column |-> self.column + acc.cdif]

\* The assignments after the loop with line counting calls that crossed a
\* newline, not newlines.
Commit_oneline(self, new_offset, acc) ==
    LET col == IF acc.ldif # 0 THEN 0 ELSE self.column
    IN  [offset |-> new_offset,
         line   |-> self.line + (IF acc.ldif # 0 THEN 1 ELSE 0),
         column |-> col + acc.cdif]

\* The assignments after the loop with column set to cdif, never added to.
Commit_setcol(self, new_offset, acc) ==
    [offset |-> new_offset,
     line   |-> self.line + acc.ldif,
     column |-> acc.cdif]

\* The assignments after the loop.
Commit(self, new_offset, acc) ==
    LET col == IF acc.ldif # 0 THEN 0 ELSE self.column
    IN  [offset |-> new_offset,
         line   |-> self.line + acc.ldif,
         column |-> col + acc.cdif]

\* update_scan with the slice taken from the start of dat.
update_scan_rescan(self, d, new_offset) ==
    IF new_offset > Len(d)
    THEN [self |-> self, ret |-> PanicRet]
    ELSE LET slc == SubSeq(d, 1, new_offset)
             acc == Scan(slc, [ldif |-> 0, cdif |-> 0])
         IN  [self |-> Commit(self, new_offset, acc),
              ret  |-> [kind |-> "Some", slc |-> slc,
                        ldif |-> acc.ldif, cdif |-> acc.cdif]]

\* update_scan with new_offset required to index a byte of dat.
update_scan_strictend(self, d, new_offset) ==
    IF new_offset >= Len(d)
    THEN [self |-> self, ret |-> PanicRet]
    ELSE LET slc == SubSeq(d, self.offset + 1, new_offset)
             acc == Scan(slc, [ldif |-> 0, cdif |-> 0])
         IN  [self |-> Commit(self, new_offset, acc),
              ret  |-> [kind |-> "Some", slc |-> slc,
                        ldif |-> acc.ldif, cdif |-> acc.cdif]]

\* update once checked_sub has succeeded: the slice expression panics when
\* new_offset is past the end of dat, before anything is assigned.
update_scan(self, d, new_offset) ==
    IF new_offset > Len(d)
    THEN [self |-> self, ret |-> PanicRet]
    ELSE LET slc == SubSeq(d, self.offset + 1, new_offset)
             acc == Scan(slc, [ldif |-> 0, cdif |-> 0])
         IN  [self |-> Commit(self, new_offset, acc),
              ret  |-> [kind |-> "Some", slc |-> slc,
                        ldif |-> acc.ldif, cdif |-> acc.cdif]]

\* update that moves offset before it reports the backward move.
update_partial(self, d, new_offset) ==
    IF new_offset < self.offset
    THEN [self |-> [self EXCEPT !.offset = new_offset], ret |-> NoneRet]
    ELSE update_scan(self, d, new_offset)

\* PosTrackerExtern::update: new_offset.checked_sub(self.offset)? first.
update(self, d, new_offset) ==
    IF new_offset < self.offset
    THEN [self |-> self, ret |-> NoneRet]
    ELSE update_scan(self, d, new_offset)

----------------------------------------------------------------------------
(* PosTrackerDatRef *)

\* PosTrackerDatRef::new
DatRef_new(d) == [dat |-> d, inner |-> Default]

\* PosTrackerDatRef::inner: PosTrackerExtern is Copy, the caller gets a value.
inner(self) == self.inner

\* PosTrackerDatRef::update with the call made on a copy of inner.
DatRef_update_oncopy(self, new_offset) ==
    LET r == update(self.inner, self.dat, new_offset)
    IN  [self |-> self, ret |-> r.ret]

\* PosTrackerDatRef::update: self.inner.update(self.dat, new_offset)
DatRef_update(self, new_offset) ==
    LET r == update(self.inner, self.dat, new_offset)
    IN  [self |-> [self EXCEPT !.inner = r.self], ret |-> r.ret]

\* The names of the snapshots kept.
Snaps == {1, 2}

\* snaps[i].update(d, new_offset) where snaps[i] would be a reference to the
\* inner tracker of dr, not a copy of it.
snapshot_update_aliased(dr, sn, i, d, new_offset) ==
    LET r == update(sn[i], d, new_offset)
    IN  [dref |-> [dr EXCEPT !.inner = r.self],
         snaps |-> [sn EXCEPT ![i] = r.self]]

\* snaps[i].update(d, new_offset) on a value that inner() returned: the
\* bound tracker dr and the other snapshots are separate values.
snapshot_update(dr, sn, i, d, new_offset) ==
    LET r == update(sn[i], d, new_offset)
    IN  [dref |-> dr, snaps |-> [sn EXCEPT ![i] = r.self]]

----------------------------------------------------------------------------
(* The buffer with every '\n' replaced by '\r\n', and the offset in it that *)
(* corresponds to offset p of the original.                                 *)

RECURSIVE CrLf(_)
CrLf(s) ==
    IF s = <<>> THEN <<>>
    ELSE IF Head(s) = NL THEN <<CR, NL>> \o CrLf(Tail(s))
    ELSE <<Head(s)>> \o CrLf(Tail(s))

CrLfPos(s, p) == Len(CrLf(SubSeq(s, 1, p)))

----------------------------------------------------------------------------
(* State machine *)

Offsets == 0..(MaxLen + MaxPast)

Init ==
    /\ dat \in Buffers
    /\ lc = LineCache_new(dat)
    /\ trk = Default
    /\ twin = Default
    /\ req = 0
    /\ ret = NoCall
    /\ query = [called |-> FALSE, pos |-> 0, res |-> <<0, 0>>]
    /\ dref = DatRef_new(dat)
    /\ dret = NoCall
    /\ snaps = [i \in Snaps |-> inner(dref)]
    /\ scanned = <<>>
    /\ ldsum = 0

\* tracker.update(dat, n)
Update(n) ==
    /\ n <= Len(dat) + MaxPast
    /\ LET r == update(trk, dat, n)
       IN  /\ trk' = r.self
           /\ ret' = r.ret
    /\ req' = n
    /\ UNCHANGED <<dat, lc, twin, query, dref, dret, snaps, scanned, ldsum>>

\* cache.run(p)
Run(p) ==
    /\ p <= Len(dat) + MaxPast
    /\ query' = [called |-> TRUE, pos |-> p, res |-> run(lc, p)]
    /\ lc' = LineCache_after_run(lc, p)
    /\ UNCHANGED <<dat, trk, twin, req, ret, dref, dret, snaps, scanned, ldsum>>

Next ==
    \/ \E n \in Offsets : Update(n)
    \/ \E p \in Offsets : Run(p)

Spec == Init /\ [][Next]_vars

\* Two trackers side by side: one over dat, one over CrLf(dat), each asked
\* for the offset that ends the same prefix of the text.
UpdatePair(n) ==
    /\ n <= Len(dat)
    /\ LET r == update(trk, dat, n)
           t == update(twin, CrLf(dat), CrLfPos(dat, n))
       IN  /\ trk' = r.self
           /\ ret' = r.ret
           /\ twin' = t.self
    /\ req' = n
    /\ UNCHANGED <<dat, lc, query, dref, dret, snaps, scanned, ldsum>>

NextCrLf == \E n \in Offsets : UpdatePair(n)

SpecCrLf == Init /\ [][NextCrLf]_vars

\* A caller of update that keeps the slices and line deltas it is handed.
UpdateCollect(n) ==
    /\ n <= Len(dat) + MaxPast
    /\ LET r == update(trk, dat, n)
       IN  /\ trk' = r.self
           /\ ret' = r.ret
           /\ scanned' = scanned \o r.ret.slc
           /\ ldsum' = ldsum + r.ret.ldif
    /\ req' = n
    /\ UNCHANGED <<dat, lc, twin, query, dref, dret, snaps>>

NextTracker == \E n \in Offsets : UpdateCollect(n)

SpecTracker == Init /\ [][NextTracker]_vars

\* A PosTrackerExtern that is handed dat on every call and a
\* PosTrackerDatRef created on dat, given the same requests.
UpdateBoth(n) ==
    /\ n <= Len(dat) + MaxPast
    /\ LET r == update(trk, dat, n)
           b == DatRef_update(dref, n)
       IN  /\ trk' = r.self
           /\ ret' = r.ret
           /\ dref' = b.self
           /\ dret' = b.ret
    /\ req' = n
    /\ UNCHANGED <<dat, lc, twin, query, snaps, scanned, ldsum>>

NextDatRef == \E n \in Offsets : UpdateBoth(n)

SpecDatRef == Init /\ [][NextDatRef]_vars

\* dref.update(n), by a caller that drops what it returns
DatRefUpdate(n) ==
    /\ n <= Len(dat) + MaxPast
    /\ dref' = DatRef_update(dref, n).self
    /\ UNCHANGED <<dat, lc, trk, twin, req, ret, query, dret, snaps, scanned, ldsum>>

\* snaps[i] = dref.inner()
TakeSnapshot(i) ==
    /\ snaps' = [snaps EXCEPT ![i] = inner(dref)]
    /\ UNCHANGED <<dat, lc, trk, twin, req, ret, query, dref, dret, scanned, ldsum>>

\* snaps[i].update(dat, n)
SnapshotUpdate(i, n) ==
    /\ n <= Len(dat) + MaxPast
    /\ LET r == snapshot_update(dref, snaps, i, dat, n)
       IN  /\ dref' = r.dref
           /\ snaps' = r.snaps
    /\ UNCHANGED <<dat, lc, trk, twin, req, ret, query, dret, scanned, ldsum>>

NextSnap ==
    \/ \E n \in Offsets : DatRefUpdate(n)
    \/ \E i \in Snaps : TakeSnapshot(i)
    \/ \E i \in Snaps, n \in Offsets : SnapshotUpdate(i, n)

SpecSnap == Init /\ [][NextSnap]_vars

----------------------------------------------------------------------------
(* What the buffer itself says about an offset, counted directly. *)

\* Zero-based offsets of the newline bytes of s.
NLAt(s) == {o \in 0..(Len(s) - 1) : s[o + 1] = NL}

\* Number of newline bytes in s[a, b).
CountNL(s, a, b) == Cardinality({o \in NLAt(s) : a <= o /\ o < b})

\* Number of bytes in s[a, b) that are neither '\n' nor '\r'.
ColBytes(s, a, b) ==
    Cardinality({o \in 0..(Len(s) - 1) : a <= o /\ o < b /\ s[o + 1] \notin {NL, CR}})

SetMax(S) == CHOOSE m \in S : \A x \in S : x <= m

\* The position just after the last newline in s[0, p), or 0 if there is none.
LineStart(s, p) ==
    LET before == {o \in NLAt(s) : o < p}
    IN  IF before = {} THEN 0 ELSE SetMax(before) + 1

----------------------------------------------------------------------------
(* Claims *)

\* C1: a tracker advanced through increasing offsets up to p_n ends with the
\* (line, column) that the LineCache built from the same buffer returns for
\* p_n.
TrackerMatchesLookup ==
    (ret.kind = "Some" /\ trk.offset > 0)
        => <<trk.line, trk.column>> = run(lc, trk.offset)

\* C2: an update to an offset before the current one returns None and leaves
\* offset, line and column as they were, so every later update to q >= offset
\* behaves as it would have without the failed call.
BackwardMoveRejected ==
    [][\A n \in Offsets :
          (Update(n) /\ n < trk.offset)
              => /\ ret'.kind = "None"
                 /\ trk' = trk
                 /\ \A q \in Offsets :
                        q >= trk.offset => update(trk', dat, q) = update(trk, dat, q)]_vars

BackwardMoveSeen ==
    /\ ret.kind = "None"
    /\ req < trk.offset
    /\ trk.line > 0
    /\ trk.column > 0

LookupAtNewlineIsLineBefore ==
    (query.called /\ query.pos \in NLAt(dat))
        => query.res[1] = CountNL(dat, 0, query.pos)

\* C5: for pos inside the buffer, run(pos) is zero-based: the line is the
\* number of newlines before pos and the column the number of bytes other
\* than '\n' and '\r' between the start of pos's line and pos.
LookupZeroBased ==
    (query.called /\ query.pos < Len(dat))
        => query.res = <<CountNL(dat, 0, query.pos),
                         ColBytes(dat, LineStart(dat, query.pos), query.pos)>>

\* C6: after any sequence of update calls, column is the number of bytes
\* that are neither '\n' nor '\r' between the start of the current line and
\* offset.
ColumnInvariant ==
    trk.column = ColBytes(dat, LineStart(dat, trk.offset), trk.offset)

ColumnAfterNewlineSeen ==
    /\ ret.kind = "Some"
    /\ ret.ldif > 0
    /\ trk.column > 0
    /\ CR \in {dat[o + 1] : o \in LineStart(dat, trk.offset)..(trk.offset - 1)}

\* C7: every update with new_offset >= offset returns Some, whatever
\* new_offset and the buffer's length are; None for new_offset < offset is
\* the only other outcome.
AdvanceAlwaysSucceeds ==
    (ret.kind # "nocall")
        => IF req < trk.offset THEN ret.kind = "None" ELSE ret.kind = "Some"

\* C8 as stated: the third component of a successful update is the number
\* of bytes in dat[old_offset, new_offset) that are neither '\n' nor '\r'.
ColumnDeltaWholeSlice ==
    [][\A n \in Offsets :
          (Update(n) /\ ret'.kind = "Some")
              => ret'.cdif = ColBytes(dat, trk.offset, n)]_vars

\* C8 amended: the third component of a successful update is the number of
\* bytes that are neither '\n' nor '\r' after the last newline of
\* dat[old_offset, new_offset), or in the whole slice when it holds no
\* newline.
ColumnDeltaAfterLastNewline ==
    [][\A n \in Offsets :
          (Update(n) /\ ret'.kind = "Some")
              => LET from == IF CountNL(dat, trk.offset, n) = 0
                             THEN trk.offset ELSE LineStart(dat, n)
                 IN  ret'.cdif = ColBytes(dat, from, n)]_vars

ColumnDeltaSeen ==
    /\ ret.kind = "Some"
    /\ ret.ldif > 0
    /\ ret.cdif > 0
    /\ ret.slc[1] \notin {NL, CR}

\* C9: a successful update from old_offset to new_offset returns the slice
\* dat[old_offset, new_offset) and the number of '\n' bytes in it, and
\* leaves offset = new_offset and line = old line + that number.
SliceAndLineDelta ==
    [][\A n \in Offsets :
          (Update(n) /\ ret'.kind = "Some")
              => /\ ret'.slc = SubSeq(dat, trk.offset + 1, n)
                 /\ ret'.ldif = CountNL(dat, trk.offset, n)
                 /\ trk'.offset = n
                 /\ trk'.line = trk.line + ret'.ldif]_vars

SliceAndLineDeltaSeen ==
    /\ ret.kind = "Some"
    /\ ret.ldif > 0
    /\ trk.line > ret.ldif
    /\ Len(ret.slc) < trk.offset

\* C10: a tracker over dat and a tracker over dat with every '\n' replaced
\* by '\r\n', each advanced to the end of the same prefix of the text, show
\* the same line and column.
CrLfNeutral ==
    (twin.offset = CrLfPos(dat, trk.offset))
        => (twin.line = trk.line /\ twin.column = trk.column)

CrLfSeen ==
    /\ twin.offset = CrLfPos(dat, trk.offset)
    /\ twin.offset > trk.offset + 1
    /\ trk.column > 0

\* C11: the index has one entry per '\n' byte and its k-th entry is
\* (k, offset of the k-th newline): line numbers are consecutive from 1,
\* end offsets strictly increasing, and a buffer without newline gives an
\* empty index.
IndexStructure ==
    /\ Len(lc) = Cardinality(NLAt(dat))
    /\ \A k \in 1..Len(lc) :
          /\ lc[k][1] = k
          /\ lc[k][2] \in NLAt(dat)
          /\ Cardinality({o \in NLAt(dat) : o <= lc[k][2]}) = k
    /\ \A k \in 1..(Len(lc) - 1) : lc[k][2] < lc[k + 1][2]
    /\ (NLAt(dat) = {} => lc = <<>>)

IndexStructureSeen ==
    /\ Len(lc) >= 2
    /\ lc[1][2] > 0
    /\ lc[2][2] > lc[1][2] + 1
    /\ query.called

\* C12: whatever offsets are requested, offset never decreases from one
\* state to the next, and neither does line.
OffsetMonotone ==
    [][trk'.offset >= trk.offset /\ trk'.line >= trk.line]_vars

OffsetMonotoneSeen ==
    /\ ret.kind = "None"
    /\ req = 0
    /\ trk.line >= 2

\* C13: a PosTrackerDatRef created on dat and a PosTrackerExtern passed dat
\* on every call return the same on every call and hold the same
\* (offset, line, column) after it; a new PosTrackerDatRef holds (0, 0, 0).
DatRefDelegates ==
    /\ dret = ret
    /\ inner(dref) = trk
    /\ dref.dat = dat
    /\ (dret.kind = "nocall" => inner(dref) = [offset |-> 0, line |-> 0, column |-> 0])

DatRefDelegatesSeen ==
    /\ dret.kind = "None"
    /\ inner(dref).line > 0
    /\ inner(dref).column > 0

\* C14: taking a snapshot leaves the PosTrackerDatRef as it is, and an update
\* of a snapshot changes neither the PosTrackerDatRef nor any other snapshot.
SnapshotIsCopy ==
    [][/\ \A i \in Snaps : TakeSnapshot(i) => dref' = dref
       /\ \A i \in Snaps, n \in Offsets :
             SnapshotUpdate(i, n)
                 => /\ dref' = dref
                    /\ \A j \in Snaps \ {i} : snaps'[j] = snaps[j]]_vars

SnapshotDivergedSeen ==
    /\ snaps[1].offset > inner(dref).offset
    /\ inner(dref).offset > snaps[2].offset
    /\ snaps[2].offset > 0
    /\ snaps[1].line > inner(dref).line

\* C15: run leaves the entries of the index as they are, and run(pos)
\* returns what a first run(pos) on the index as built returns, whatever
\* was looked up before.
LookupPure ==
    [][\A p \in Offsets :
          Run(p) => /\ lc' = lc
                    /\ query'.res = run(LineCache_new(dat), p)]_vars

LookupPureSeen ==
    /\ query.called
    /\ query.pos < Len(dat)
    /\ query.res[1] >= 1
    /\ query.res[2] >= 1

\* C16: an update with new_offset equal to the current offset returns Some
\* with an empty slice and both deltas 0, and leaves offset, line and
\* column as they were; so does update(0) on a fresh tracker over an empty
\* buffer.
ZeroByteAdvance ==
    [][\A n \in Offsets :
          (UpdateCollect(n) /\ n = trk.offset)
              => /\ ret' = [kind |-> "Some", slc |-> <<>>, ldif |-> 0, cdif |-> 0]
                 /\ trk' = trk]_vars

ZeroByteAdvanceSeen ==
    /\ ret.kind = "Some"
    /\ ret.slc = <<>>
    /\ req = trk.offset
    /\ trk.line > 0
    /\ trk.column > 0

\* C17: the slices of the successful updates are contiguous, each starting
\* where the one before ended and the first at 0; their concatenation is
\* dat[0, offset), so the bytes scanned in total number offset; a failed
\* update scans nothing.
IncrementalScan ==
    [][\A n \in Offsets :
          UpdateCollect(n)
              => /\ ret'.kind = "Some" => ret'.slc = SubSeq(dat, Len(scanned) + 1, n)
                 /\ ret'.kind # "Some" => (ret'.slc = <<>> /\ scanned' = scanned)
                 /\ scanned' = SubSeq(dat, 1, trk'.offset)
                 /\ Len(scanned') = trk'.offset]_vars

IncrementalScanSeen ==
    /\ ret.kind = "Some"
    /\ Len(ret.slc) >= 1
    /\ Len(scanned) > Len(ret.slc) + 1
    /\ Len(scanned) = Len(dat)

\* C18: from a tracker at offset a, an update to q followed by an update to
\* p, a <= q <= p <= len, leaves the same offset, line and column as the
\* update to p alone.
SplitInvariant ==
    [][\A q \in Offsets :
          (UpdateCollect(q) /\ ret'.kind = "Some")
              => \A p \in q..Len(dat) :
                    update(trk', dat, p).self = update(trk, dat, p).self]_vars

SplitSeen ==
    /\ ret.kind = "Some"
    /\ Len(ret.slc) >= 1
    /\ trk.column >= 2
    /\ trk.offset < Len(dat)
    /\ dat[trk.offset + 1] = NL

\* C19: the breakpoint run chooses is never past pos, so pos - bkpt is never
\* negative: before the first newline, on a newline and past the end.
LookupNoUnderflow ==
    query.called
        => /\ take_while_last(lc, query.pos, <<0, 0>>)[2] <= query.pos
           /\ query.res[2] >= 0

LookupBeforeFirstNewlineSeen ==
    /\ query.called
    /\ lc # <<>>
    /\ query.pos < lc[1][2]

\* C20: line is the number of '\n' bytes in dat[0, offset), which is also
\* the sum of the line deltas the successful updates returned.
LineInvariant ==
    /\ trk.line = CountNL(dat, 0, trk.offset)
    /\ trk.line = ldsum

LineInvariantSeen ==
    /\ ret.kind = "Some"
    /\ ret.ldif = 1
    /\ ldsum >= 3
    /\ trk.offset > trk.line

====
